---- MODULE Spec2Model ----
(***************************************************************************)
(* Veerji-Lang: a one-line source-to-assembly translator.                  *)
(*   lexer.c   tokenize        line of bytes  -> Token[]                   *)
(*   parser.c  parse_tokens    Token[]        -> Program                   *)
(*   codegen.c generate_code   Program        -> NASM text in out.s        *)
(*   main.c    main            the pipeline                                *)
(* Text is modelled as the bytes the C code handles: a C string is the     *)
(* sequence of its bytes without the terminating NUL.                      *)
(***************************************************************************)
EXTENDS Integers, Sequences, FiniteSets, TLC

\* ------------------------------------------------------------------ bounds
MaxText == 2        \* longest short string literal drawn for an input line
MaxSpaces == 1      \* most spaces written between separator and text
MaxTokens == 6      \* longest token sequence handed to parse_tokens alone
MaxStmts == 2       \* most statements of a Program handed to generate_code alone

\* ------------------------------------------------------- program constants
TokenValueSize == 512   \* char value[512]
LineSize == 1024        \* char line[1024]
NUL == 0
NL == 10                \* '\n'
SP == 32                \* ' '

KW == <<224, 168, 178, 224, 168, 191, 224, 168, 150, 224, 169, 139>>
SEP == <<226, 152, 172>>
Placeholder == <<63, 63, 63>>                                   \* "???"

Min(a, b) == IF a < b THEN a ELSE b

\* ------------------------------------------------------------- C library
\* s[k] of a NUL-terminated string, k counted from 1
At(s, k) == IF k <= Len(s) THEN s[k] ELSE NUL

strlen(s) == Len(s)

\* strncmp(s, t, n) == 0: the first n bytes agree, comparison stopping at a NUL
strncmp0(s, t, n) ==
    \A k \in 1..n : (\A j \in 1..(k-1) : At(s, j) # NUL) => At(s, k) = At(t, k)

\* strstr(s, t): the 1-based index of the first occurrence of t in s, 0 for NULL
strstr(s, t) ==
    LET hits == {k \in 1..(Len(s) - Len(t) + 1) : SubSeq(s, k, k + Len(t) - 1) = t}
    IN  IF hits = {} THEN 0 ELSE CHOOSE k \in hits : \A h \in hits : k <= h

\* strcspn(s, {c}): length of the longest prefix of s without the byte c
strcspn(s, c) ==
    LET hits == {k \in 1..Len(s) : s[k] = c}
    IN  IF hits = {} THEN Len(s) ELSE (CHOOSE k \in hits : \A h \in hits : k <= h) - 1

\* strncpy(dst, src, n) into a zero-filled dst: the first n bytes of src
strncpy(src, n) == SubSeq(src, 1, Min(Len(src), n))

\* fgets(buf, size, f) on the bytes of f: at most size-1 bytes, through the
\* first newline
fgets(bytes, size) ==
    LET nl == strcspn(bytes, NL) + 1
    IN  SubSeq(bytes, 1, Min(Min(nl, Len(bytes)), size - 1))

\* while (*str == ' ') str++ : index of the first non-space byte at or after k
RECURSIVE SkipSpaces(_, _)
SkipSpaces(s, k) == IF At(s, k) = SP THEN SkipSpaces(s, k + 1) ELSE k

\* ------------------------------------------------------------------ lexer
Token(t, v) == [type |-> t, value |-> v]

\* StringToken without line 32: the newline is left in the literal
StringToken_keepNewline(line, sep) ==
    LET str == SkipSpaces(line, sep + strlen(SEP))
    IN  Token("TOKEN_STRING",
              strncpy(SubSeq(line, str, Len(line)), TokenValueSize - 1))

\* lexer.c 27-34: the literal after the separator found at index sep
StringToken(line, sep) ==
    LET str == SkipSpaces(line, sep + strlen(SEP))
        copied == strncpy(SubSeq(line, str, Len(line)), TokenValueSize - 1)
    IN  Token("TOKEN_STRING", SubSeq(copied, 1, strcspn(copied, NL)))

\* tokenize looking for the keyword anywhere in the line (strstr for strncmp)
tokenize_keywordAnywhere(line) ==
    IF strstr(line, KW) # 0
    THEN LET sep == strstr(line, SEP)
         IN  IF sep # 0
             THEN <<Token("TOKEN_PRINT", KW), Token("TOKEN_SEPARATOR", SEP),
                    StringToken(line, sep)>>
             ELSE <<Token("TOKEN_PRINT", KW)>>
    ELSE <<Token("TOKEN_UNKNOWN", Placeholder)>>

\* tokenize without the test of line 24: the separator token is always added
tokenize_noSepTest(line) ==
    IF strncmp0(line, KW, strlen(KW))
    THEN LET sep == strstr(line, SEP)
         IN  IF sep # 0
             THEN <<Token("TOKEN_PRINT", KW), Token("TOKEN_SEPARATOR", SEP),
                    StringToken(line, sep)>>
             ELSE <<Token("TOKEN_PRINT", KW), Token("TOKEN_SEPARATOR", SEP)>>
    ELSE <<Token("TOKEN_UNKNOWN", Placeholder)>>

\* lexer.c 17-41
tokenize(line) ==
    IF strncmp0(line, KW, strlen(KW))
    THEN LET sep == strstr(line, SEP)
         IN  IF sep # 0
             THEN <<Token("TOKEN_PRINT", KW), Token("TOKEN_SEPARATOR", SEP),
                    StringToken(line, sep)>>
             ELSE <<Token("TOKEN_PRINT", KW)>>
    ELSE <<Token("TOKEN_UNKNOWN", Placeholder)>>

\* ----------------------------------------------------------------- parser
Uninit == [type |-> "UNINIT", value |-> <<>>]
Stmt(v) == [type |-> "STMT_PRINT", value |-> v]
NoProgram == [statements |-> <<>>, count |-> -1]

\* Matches without line 45: the kind of the third token is not looked at
Matches_noThird(toks, c, n) ==
    /\ c + 2 < n
    /\ toks[c + 1].type = "TOKEN_PRINT"
    /\ toks[c + 2].type = "TOKEN_SEPARATOR"

\* parser.c 42-45: the three-token production at cursor c (0-based) of n tokens
Matches(toks, c, n) ==
    /\ c + 2 < n
    /\ toks[c + 1].type = "TOKEN_PRINT"
    /\ toks[c + 2].type = "TOKEN_SEPARATOR"
    /\ toks[c + 3].type = "TOKEN_STRING"

\* ------------------------------------------------------------------ state
VARIABLES
    pc,         \* where the process is
    input,      \* argv and the source file on disk
    line,       \* main: char line[1024]
    tokens,     \* main: the tokens tokenize filled in
    count,      \* main: int count (token_count in parse_tokens)
    prog,       \* parse_tokens: Program prog
    i,          \* parse_tokens: the loop cursor
    program,    \* main: Program program
    gi,         \* generate_code: the loop index
    outfile,    \* out.s on disk
    wfail,      \* a write to out.s has failed
    stdout,     \* what was printed
    stderr,     \* diagnostics
    status,     \* exit status
    trace       \* the stages called so far

vars == <<pc, input, line, tokens, count, prog, i, program, gi, outfile, wfail,
          stdout, stderr, status, trace>>

\* out.s on disk: absent, or a file of bytes
Absent == [exists |-> FALSE, bytes |-> <<>>]
File(b) == [exists |-> TRUE, bytes |-> b]
OldFile == File(<<111, 108, 100, 10>>)                          \* "old\n"

\* ----------------------------------------------------------------- inputs
Fill(n) == [k \in 1..n |-> 98]                                   \* "bbb..."
TextAlphabet == {97, SP, 34}                                     \* a, space, "
RECURSIVE Strings(_, _)
Strings(alphabet, n) ==
    IF n = 0 THEN {<<>>}
    ELSE LET shorter == Strings(alphabet, n - 1)
         IN  shorter \cup {Append(s, c) : s \in {t \in shorter : Len(t) = n - 1},
                                          c \in alphabet}
\* the literal of a source line: short strings, a string holding the separator,
\* and strings at and beyond the sizes of the value and line buffers
Texts == Strings(TextAlphabet, MaxText)
         \cup {<<97>> \o SEP, Fill(TokenValueSize - 1), Fill(TokenValueSize),
               Fill(LineSize)}
Heads == {<<>>, KW, SubSeq(KW, 1, Len(KW) - 1), <<SP>> \o KW, <<102, 111, 111>>}
Gaps == {<<>>, <<SP>>}
Seps == {<<>>, SEP, SubSeq(SEP, 1, 2)}
Tails == {<<>>, <<NL>>, <<NL, 120, NL>>}
Spaces(n) == [k \in 1..n |-> SP]

SourceFiles == [kind : {"file"}, head : Heads, gap : Gaps, sep : Seps,
                nsp : 0..MaxSpaces, text : Texts, tail : Tails]
NoInput(k) == [kind |-> k, head |-> <<>>, gap |-> <<>>, sep |-> <<>>,
               nsp |-> 0, text |-> <<>>, tail |-> <<>>]
\* the bytes of the source file
Bytes(in) == in.head \o in.gap \o in.sep \o Spaces(in.nsp) \o in.text \o in.tail

\* what an unwritten line[1024] may hold when fgets reads nothing
Garbage == {<<>>, <<97>>, KW \o SEP \o <<97, NL>>}

Start ==
    /\ line = <<>>
    /\ prog = NoProgram
    /\ i = 0
    /\ gi = 0
    /\ wfail = FALSE
    /\ stdout = <<>>
    /\ stderr = <<>>
    /\ status = 0
    /\ trace = <<>>

Init ==
    /\ pc = "main"
    /\ input \in SourceFiles \cup {NoInput("noarg"), NoInput("nofile")}
    /\ outfile \in {Absent, OldFile}
    /\ tokens = <<>>
    /\ count = 0
    /\ program = NoProgram
    /\ Start

\* ------------------------------------------------------------------- main
\* exit(code), or main returning code
Exit(code) == pc' = "exit" /\ status' = code

\* main.c 46-49
main_usage ==
    /\ pc = "main" /\ input.kind = "noarg"
    /\ stdout' = Append(stdout, "Usage")
    /\ Exit(1)
    /\ UNCHANGED <<input, line, tokens, count, prog, i, program, gi, outfile,
                   wfail, stderr, trace>>

\* main.c 51-55
main_fopen_fail ==
    /\ pc = "main" /\ input.kind = "nofile"
    /\ stderr' = Append(stderr, [kind |-> "perror", pos |-> 0, text |-> <<>>])
    /\ Exit(1)
    /\ UNCHANGED <<input, line, tokens, count, prog, i, program, gi, outfile,
                   wfail, stdout, trace>>

\* main.c 57-59: fgets's result is not looked at; on an empty file line is
\* left as it was, unwritten
main_fgets ==
    /\ pc = "main" /\ input.kind = "file"
    /\ IF Bytes(input) = <<>>
       THEN line' \in Garbage
       ELSE line' = fgets(Bytes(input), LineSize)
    /\ pc' = "tokenize"
    /\ UNCHANGED <<input, tokens, count, prog, i, program, gi, outfile, wfail,
                   stdout, stderr, status, trace>>

\* main.c 61-67
main_tokenize ==
    /\ pc = "tokenize"
    /\ tokens' = tokenize(line)
    /\ count' = Len(tokens')
    /\ stdout' = Append(stdout, "=== TOKENS ===")
    /\ trace' = Append(trace, "tokenize")
    /\ pc' = "parse_tokens"
    /\ UNCHANGED <<input, line, prog, i, program, gi, outfile, wfail, stderr,
                   status>>

\* ----------------------------------------------------------- parse_tokens
\* parser.c 36-41
parse_tokens_enter ==
    /\ pc = "parse_tokens"
    /\ prog' = [statements |-> [k \in 0..(count - 1) |-> Uninit], count |-> 0]
    /\ i' = 0
    /\ trace' = Append(trace, "parse_tokens")
    /\ pc' = "parse_loop"
    /\ UNCHANGED <<input, line, tokens, count, program, gi, outfile, wfail,
                   stdout, stderr, status>>

\* parse_tokens_match storing at prog.count without incrementing it
parse_tokens_match_noIncrement ==
    /\ pc = "parse_loop" /\ i < count
    /\ Matches(tokens, i, count)
    /\ prog' = [statements |-> [prog.statements EXCEPT
                                  ![prog.count] = Stmt(tokens[i + 3].value)],
                count |-> prog.count]
    /\ i' = i + 3
    /\ UNCHANGED <<pc, input, line, tokens, count, program, gi, outfile, wfail,
                   stdout, stderr, status, trace>>

\* parser.c 42-52
parse_tokens_match ==
    /\ pc = "parse_loop" /\ i < count
    /\ Matches(tokens, i, count)
    /\ prog' = [statements |-> [prog.statements EXCEPT
                                  ![prog.count] = Stmt(tokens[i + 3].value)],
                count |-> prog.count + 1]
    /\ i' = i + 3
    /\ UNCHANGED <<pc, input, line, tokens, count, program, gi, outfile, wfail,
                   stdout, stderr, status, trace>>

\* parse_tokens_error without the exit(1) of line 55: the error is printed
\* and the token skipped
parse_tokens_error_noExit ==
    /\ pc = "parse_loop" /\ i < count
    /\ ~Matches(tokens, i, count)
    /\ stderr' = Append(stderr, [kind |-> "Syntax error at token", pos |-> i,
                                 text |-> tokens[i + 1].value])
    /\ i' = i + 1
    /\ UNCHANGED <<pc, input, line, tokens, count, prog, program, gi, outfile,
                   wfail, stdout, status, trace>>

\* parser.c 53-56
parse_tokens_error ==
    /\ pc = "parse_loop" /\ i < count
    /\ ~Matches(tokens, i, count)
    /\ stderr' = Append(stderr, [kind |-> "Syntax error at token", pos |-> i,
                                 text |-> tokens[i + 1].value])
    /\ Exit(1)
    /\ UNCHANGED <<input, line, tokens, count, prog, i, program, gi, outfile,
                   wfail, stdout, trace>>

\* parser.c 41, 59 and main.c 69
parse_tokens_return ==
    /\ pc = "parse_loop" /\ ~(i < count)
    /\ program' = prog
    /\ pc' = "parsed"
    /\ UNCHANGED <<input, line, tokens, count, prog, i, gi, outfile, wfail,
                   stdout, stderr, status, trace>>

\* main.c 71-74
main_parsed ==
    /\ pc = "parsed"
    /\ stdout' = Append(stdout, "=== PARSED ===")
    /\ pc' = "generate_code"
    /\ UNCHANGED <<input, line, tokens, count, prog, i, program, gi, outfile,
                   wfail, stderr, status, trace>>

\* ---------------------------------------------------------- generate_code
S_data == <<115, 101, 99, 116, 105, 111, 110, 32, 46, 100, 97, 116, 97, 10>>
S_msg == <<109, 115, 103>>                                      \* "msg"
S_db == <<32, 100, 98, 32, 34>>                                 \* " db \""
S_dbEnd == <<34, 44, 32, 48, 120, 65, 10>>                      \* "\", 0xA\n"
S_len == <<108, 101, 110>>                                      \* "len"
S_equ == <<32, 101, 113, 117, 32, 36, 32, 45, 32, 109, 115, 103>>
S_text == <<10, 115, 101, 99, 116, 105, 111, 110, 32, 46, 116, 101, 120, 116, 10>>
S_global == <<103, 108, 111, 98, 97, 108, 32, 95, 115, 116, 97, 114, 116, 10>>
S_start == <<95, 115, 116, 97, 114, 116, 58, 10>>               \* "_start:\n"
S_rax1 == <<32, 32, 32, 32, 109, 111, 118, 32, 114, 97, 120, 44, 32, 49, 10>>
S_rdi1 == <<32, 32, 32, 32, 109, 111, 118, 32, 114, 100, 105, 44, 32, 49, 10>>
S_rsi == <<32, 32, 32, 32, 109, 111, 118, 32, 114, 115, 105, 44, 32, 109, 115, 103>>
S_rdx == <<32, 32, 32, 32, 109, 111, 118, 32, 114, 100, 120, 44, 32, 108, 101, 110>>
S_syscall2 == <<32, 32, 32, 32, 115, 121, 115, 99, 97, 108, 108, 10, 10>>
S_rax60 == <<32, 32, 32, 32, 109, 111, 118, 32, 114, 97, 120, 44, 32, 54, 48, 10>>
S_xor == <<32, 32, 32, 32, 120, 111, 114, 32, 114, 100, 105, 44, 32, 114, 100, 105, 10>>
S_syscall == <<32, 32, 32, 32, 115, 121, 115, 99, 97, 108, 108, 10>>

\* printf's %d of a value >= 0
RECURSIVE Dec(_)
Dec(n) == IF n < 10 THEN <<48 + n>> ELSE Dec(n \div 10) \o <<48 + (n % 10)>>

\* codegen.c 33-36
DataBlock(k, stmt) ==
    IF stmt.type = "STMT_PRINT"
    THEN S_msg \o Dec(k) \o S_db \o stmt.value \o S_dbEnd
         \o S_len \o Dec(k) \o S_equ \o Dec(k) \o <<NL>>
    ELSE <<>>

\* codegen.c 39-41
TextHeader == S_text \o S_global \o S_start

\* TextBlock naming msg0 and len0 in every block
TextBlock_firstLabel(k, stmt) ==
    IF stmt.type = "STMT_PRINT"
    THEN S_rax1 \o S_rdi1 \o S_rsi \o Dec(0) \o <<NL>> \o S_rdx \o Dec(0) \o <<NL>>
         \o S_syscall2
    ELSE <<>>

\* codegen.c 44-50
TextBlock(k, stmt) ==
    IF stmt.type = "STMT_PRINT"
    THEN S_rax1 \o S_rdi1 \o S_rsi \o Dec(k) \o <<NL>> \o S_rdx \o Dec(k) \o <<NL>>
         \o S_syscall2
    ELSE <<>>

\* ExitBlock with the syscall number of the write blocks
ExitBlock_write == S_rax1 \o S_xor \o S_syscall

\* codegen.c 54-56
ExitBlock == S_rax60 \o S_xor \o S_syscall

\* fprintf(f, ...) of text: the bytes reach the file, or the write fails and
\* the failure goes unnoticed (the return value is not looked at)
Fprintf(text, ok) ==
    /\ outfile' = IF ok THEN File(outfile.bytes \o text) ELSE outfile
    /\ wfail' = (wfail \/ ~ok)

\* codegen.c 24, 30: fopen(filename, "w") creates or truncates the file
generate_code_fopen ==
    /\ pc = "generate_code"
    /\ trace' = Append(trace, "generate_code")
    /\ outfile' = File(<<>>)
    /\ pc' = "gen_data"
    /\ UNCHANGED <<input, line, tokens, count, prog, i, program, gi, wfail,
                   stdout, stderr, status>>

\* codegen.c 24-28
generate_code_fopen_fail ==
    /\ pc = "generate_code"
    /\ trace' = Append(trace, "generate_code")
    /\ stderr' = Append(stderr, [kind |-> "perror", pos |-> 0, text |-> <<>>])
    /\ Exit(1)
    /\ UNCHANGED <<input, line, tokens, count, prog, i, program, gi, outfile,
                   wfail, stdout>>

\* codegen.c 30, 32
generate_code_data ==
    /\ pc = "gen_data"
    /\ \E ok \in BOOLEAN : Fprintf(S_data, ok)
    /\ gi' = 0
    /\ pc' = "gen_data_loop"
    /\ UNCHANGED <<input, line, tokens, count, prog, i, program, stdout, stderr,
                   status, trace>>

\* codegen.c 32-37, one iteration
generate_code_data_stmt ==
    /\ pc = "gen_data_loop" /\ gi < program.count
    /\ \E ok \in BOOLEAN : Fprintf(DataBlock(gi, program.statements[gi]), ok)
    /\ gi' = gi + 1
    /\ UNCHANGED <<pc, input, line, tokens, count, prog, i, program, stdout,
                   stderr, status, trace>>

\* codegen.c 39-43
generate_code_text ==
    /\ pc = "gen_data_loop" /\ ~(gi < program.count)
    /\ \E ok \in BOOLEAN : Fprintf(TextHeader, ok)
    /\ gi' = 0
    /\ pc' = "gen_text_loop"
    /\ UNCHANGED <<input, line, tokens, count, prog, i, program, stdout, stderr,
                   status, trace>>

\* codegen.c 43-51, one iteration
generate_code_text_stmt ==
    /\ pc = "gen_text_loop" /\ gi < program.count
    /\ \E ok \in BOOLEAN : Fprintf(TextBlock(gi, program.statements[gi]), ok)
    /\ gi' = gi + 1
    /\ UNCHANGED <<pc, input, line, tokens, count, prog, i, program, stdout,
                   stderr, status, trace>>

\* codegen.c 53-56
generate_code_exit ==
    /\ pc = "gen_text_loop" /\ ~(gi < program.count)
    /\ \E ok \in BOOLEAN : Fprintf(ExitBlock, ok)
    /\ pc' = "gen_close"
    /\ UNCHANGED <<input, line, tokens, count, prog, i, program, gi, stdout,
                   stderr, status, trace>>

\* codegen.c 58-59: fclose's result is not looked at either
generate_code_fclose ==
    /\ pc = "gen_close"
    /\ \E ok \in BOOLEAN : wfail' = (wfail \/ ~ok)
    /\ pc' = "generated"
    /\ UNCHANGED <<input, line, tokens, count, prog, i, program, gi, outfile,
                   stdout, stderr, status, trace>>

\* main.c 78-80
main_return ==
    /\ pc = "generated"
    /\ stdout' = Append(stdout, "Assembly written to out.s")
    /\ Exit(0)
    /\ UNCHANGED <<input, line, tokens, count, prog, i, program, gi, outfile,
                   wfail, stderr, trace>>

\* --------------------------------------------------------- specifications
Lex == main_usage \/ main_fopen_fail \/ main_fgets \/ main_tokenize

Parse == parse_tokens_enter \/ parse_tokens_match \/ parse_tokens_error
         \/ parse_tokens_return

Generate == generate_code_fopen \/ generate_code_fopen_fail \/ generate_code_data
            \/ generate_code_data_stmt \/ generate_code_text
            \/ generate_code_text_stmt \/ generate_code_exit
            \/ generate_code_fclose

\* the program: main on a source file
Next == Lex \/ Parse \/ main_parsed \/ Generate \/ main_return
Spec == Init /\ [][Next]_vars

\* parse_tokens alone, on any token sequence
TokenChoices == {Token("TOKEN_PRINT", KW), Token("TOKEN_SEPARATOR", SEP),
                 Token("TOKEN_STRING", <<97>>), Token("TOKEN_STRING", <<98, 34>>),
                 Token("TOKEN_UNKNOWN", Placeholder)}
TokenSeqs == UNION {[1..n -> TokenChoices] : n \in 0..MaxTokens}
InitParse ==
    /\ pc = "parse_tokens"
    /\ input = NoInput("none")
    /\ outfile = Absent
    /\ tokens \in TokenSeqs
    /\ count = Len(tokens)
    /\ program = NoProgram
    /\ Start
NextParse == Parse
SpecParse == InitParse /\ [][NextParse]_vars

\* generate_code alone, on any Program parse_tokens can return: count
\* statements in the first slots of an array of 3 * count
StmtValues == {<<>>, <<97>>, <<97, 34>>, <<98, SP, 98>>}
ProgramOf(vs) ==
    [statements |-> [k \in 0..(3 * Len(vs) - 1) |->
                        IF k < Len(vs) THEN Stmt(vs[k + 1]) ELSE Uninit],
     count |-> Len(vs)]
Programs == {ProgramOf(vs) : vs \in UNION {[1..n -> StmtValues] : n \in 0..MaxStmts}}
InitGen ==
    /\ pc = "generate_code"
    /\ input = NoInput("none")
    /\ outfile \in {Absent, OldFile}
    /\ tokens = <<>>
    /\ count = 0
    /\ program \in Programs
    /\ Start
NextGen == Generate
SpecGen == InitGen /\ [][NextGen]_vars

\* ================================================================= claims
\* what the claims speak of, stated without the code's own helpers
Range(s) == {s[k] : k \in 1..Len(s)}
StartsWith(s, p) == Len(s) >= Len(p) /\ SubSeq(s, 1, Len(p)) = p
Contains(s, p) == \E k \in 1..(Len(s) - Len(p) + 1) : SubSeq(s, k, k + Len(p) - 1) = p
RECURSIVE DropSpaces(_)
DropSpaces(s) == IF s # <<>> /\ Head(s) = SP THEN DropSpaces(Tail(s)) ELSE s
Called(stage) == stage \in Range(trace)
Lexed == Called("tokenize")
ParseDone == Called("parse_tokens") /\ pc # "parse_loop"
SyntaxError(pos, text) == [kind |-> "Syntax error at token", pos |-> pos, text |-> text]
SyntaxErrors == {k \in 1..Len(stderr) : stderr[k].kind = "Syntax error at token"}

\* a source line <keyword> <separator> <text>, the text being everything after
\* the separator, with or without a line terminator, the line fitting line[]
WellFormed(in) ==
    /\ in.kind = "file"
    /\ in.head = KW /\ in.gap = <<SP>> /\ in.sep = SEP
    /\ Len(in.head \o in.gap \o in.sep \o Spaces(in.nsp) \o in.text)
         + (IF in.tail = <<>> THEN 0 ELSE 1) <= LineSize - 1
\* the text with the leading spaces removed and the line terminator stripped
ExpectedContent(in) == DropSpaces(Spaces(in.nsp) \o in.text)

\* C1: every well-formed line <keyword> <separator> <text>, whatever the
\* length of the text that fits the line, is tokenized and parsed into a
\* Program of exactly one Print Statement whose content is the text without
\* its leading spaces and line terminator.
C1_OnePrintStatement ==
    (ParseDone /\ WellFormed(input)) =>
        /\ SyntaxErrors = {}
        /\ program.count = 1
        /\ program.statements[0] = Stmt(ExpectedContent(input))

\* C3: a line that does not start with the keyword (an empty line, a line
\* with a space or text before the keyword) is tokenized into exactly one
\* token, Unknown "???", whatever follows, and tokenize signals no error.
C3_UnknownToken ==
    (Lexed /\ ~StartsWith(line, KW)) =>
        /\ tokens = <<Token("TOKEN_UNKNOWN", Placeholder)>>
        /\ count = 1
        /\ (pc = "parse_tokens" => stderr = <<>> /\ status = 0)
C3_Witness ==
    /\ pc = "parse_tokens"
    /\ ~StartsWith(line, KW) /\ Contains(line, KW) /\ Contains(line, SEP)
    /\ tokens = <<Token("TOKEN_UNKNOWN", Placeholder)>>

\* C4: a line that starts with the keyword and holds no separator glyph is
\* tokenized into exactly one token, Keyword-Print, and parse_tokens fails on
\* it with a syntax error at position 0.
C4_KeywordOnly ==
    (Lexed /\ StartsWith(line, KW) /\ ~Contains(line, SEP)) =>
        /\ tokens = <<Token("TOKEN_PRINT", KW)>>
        /\ count = 1
        /\ pc \in {"parse_tokens", "parse_loop", "exit"}
        /\ (pc = "exit" => stderr = <<SyntaxError(0, KW)>> /\ status = 1
                           /\ program = NoProgram)
C4_Witness ==
    /\ pc = "exit"
    /\ StartsWith(line, KW) /\ ~Contains(line, SEP) /\ Len(line) > Len(KW)
    /\ stderr = <<SyntaxError(0, KW)>>

\* C9: no StringLiteral token tokenize produces holds a line terminator: the
\* literal is cut before the newline of the line.
C9_NoNewlineInLiteral ==
    \A k \in 1..Len(tokens) :
        tokens[k].type = "TOKEN_STRING" => NL \notin Range(tokens[k].value)
C9_Witness ==
    /\ pc = "parse_tokens"
    /\ Len(tokens) = 3 /\ tokens[3].type = "TOKEN_STRING"
    /\ tokens[3].value # <<>>
    /\ NL \in Range(line)

StageOrder == <<"tokenize", "parse_tokens", "generate_code">>

\* C5: the stages are called in the order tokenize, parse_tokens,
\* generate_code, each after the one before has returned; and once
\* parse_tokens has reported a syntax error generate_code is not called, out.s
\* is left as it was (not created, not overwritten) and the process has ended
\* with a non-zero status.
C5_AbortOnSyntaxError ==
    /\ [](/\ trace = SubSeq(StageOrder, 1, Len(trace))
          /\ (Called("parse_tokens") => pc \notin {"main", "tokenize"})
          /\ (Called("generate_code") =>
                pc \notin {"main", "tokenize", "parse_tokens", "parse_loop",
                           "parsed"})
          /\ (SyntaxErrors # {} =>
                pc = "exit" /\ status # 0 /\ ~Called("generate_code")))
    /\ [][(SyntaxErrors # {})' => outfile' = outfile]_vars
    /\ [][(~Called("generate_code"))' => outfile' = outfile]_vars
C5_Witness ==
    /\ pc = "exit" /\ SyntaxErrors # {} /\ outfile = OldFile
    /\ trace = <<"tokenize", "parse_tokens">>

OpenFailed == \E k \in 1..Len(stderr) : stderr[k].kind = "perror"
Reported(text) == \E k \in 1..Len(stdout) : stdout[k] = text

\* C7: generate_code fails when out.s cannot be opened and when a write to
\* it fails: either ends the run with a non-zero status, and no such run
\* reports success.
C7_IOErrorIsFatal ==
    (pc = "exit" /\ Called("generate_code") /\ (OpenFailed \/ wfail)) =>
        status # 0 /\ ~Reported("Assembly written to out.s")

\* the grammar Statement := Keyword-Print Separator StringLiteral at position c
Production(toks, c) ==
    /\ c + 3 <= Len(toks)
    /\ <<toks[c + 1].type, toks[c + 2].type, toks[c + 3].type>>
         = <<"TOKEN_PRINT", "TOKEN_SEPARATOR", "TOKEN_STRING">>
\* the cursor positions of a scan in steps of three that reaches c
ScanReaches(toks, c) ==
    /\ c % 3 = 0
    /\ \A b \in 0..(c - 1) : b % 3 = 0 => Production(toks, b)
\* the first cursor position holding a token where the production fails
FirstFailure(toks) ==
    {c \in 0..(Len(toks) - 1) : ScanReaches(toks, c) /\ ~Production(toks, c)}

\* C2: parse_tokens scans from position 0 in steps of three; at the first
\* cursor position whose next three tokens are not (Keyword-Print, Separator,
\* StringLiteral), fewer than three remaining included, it fails with a
\* syntax error giving that position and the text of the token there, and
\* returns no Program; a sequence failing at position 0 fails at position 0.
C2_SyntaxErrorAtFirstFailure ==
    /\ i % 3 = 0
    /\ (pc \in {"parsed", "exit"} =>
          IF FirstFailure(tokens) = {}
          THEN pc = "parsed" /\ stderr = <<>>
          ELSE /\ pc = "exit" /\ status # 0
               /\ program = NoProgram
               /\ \E c \in FirstFailure(tokens) :
                     stderr = <<SyntaxError(c, tokens[c + 1].value)>>)
C2_Witness ==
    /\ pc = "exit"
    /\ Len(tokens) = 5 /\ Production(tokens, 0)
    /\ tokens[4].type = "TOKEN_PRINT" /\ tokens[5].type = "TOKEN_SEPARATOR"
    /\ stderr = <<SyntaxError(3, KW)>>
    /\ program = NoProgram

Appended(p) == {k \in DOMAIN p.statements : p.statements[k] # Uninit}

\* C10: at every step of parse_tokens and on its return, Program.count is the
\* number of Statements appended, the appended ones fill the first count
\* slots, and count * 3 is the cursor position; so count never exceeds the
\* token_count slots allocated, and on success count * 3 = token_count.
C10_CountMatchesCursor ==
    /\ (pc \in {"parse_loop", "parsed", "exit"} =>
          /\ Appended(prog) = 0..(prog.count - 1)
          /\ Cardinality(Appended(prog)) = prog.count
          /\ prog.count * 3 = i
          /\ prog.count <= count
          /\ \A k \in Appended(prog) :
                prog.statements[k] = Stmt(tokens[3 * k + 3].value))
    /\ (pc = "parsed" => program = prog /\ program.count * 3 = count)
C10_Witness ==
    /\ pc = "parsed"
    /\ program.count = 2 /\ count = 6
    /\ program.statements[0].value # program.statements[1].value

\* the lines of the emitted text, read back from the bytes of out.s
RECURSIVE Ascending(_)
Ascending(S) ==
    IF S = {} THEN <<>>
    ELSE LET m == CHOOSE x \in S : \A y \in S : x <= y
         IN  <<m>> \o Ascending(S \ {m})
\* every newline ends a line; bytes after the last newline are a last line
Lines(b) ==
    LET ends == Ascending({k \in 1..Len(b) : b[k] = NL})
        from(j) == IF j = 1 THEN 1 ELSE ends[j - 1] + 1
        whole == [j \in 1..Len(ends) |-> SubSeq(b, from(j), ends[j] - 1)]
        rest == SubSeq(b, from(Len(ends) + 1), Len(b))
    IN  IF rest = <<>> THEN whole ELSE Append(whole, rest)
Chomp(s) == SubSeq(s, 1, Len(s) - 1)
Where(L, l) == {k \in 1..Len(L) : L[k] = l}
WherePrefix(L, p) == {k \in 1..Len(L) : StartsWith(L[k], p)}
Indent == <<SP, SP, SP, SP>>
\* the lines of the emitted artifact
MsgDef(j, v) == S_msg \o Dec(j) \o S_db \o v \o Chomp(S_dbEnd)
LenDef(j) == S_len \o Dec(j) \o S_equ \o Dec(j)
RsiRef(j) == S_rsi \o Dec(j)
RdxRef(j) == S_rdx \o Dec(j)
SectionData == Chomp(S_data)
SectionText == SubSeq(S_text, 2, Len(S_text) - 1)
\* generate_code has returned and every write reached the file
Emitted == pc = "generated" /\ ~wfail

\* C6: for a Program S0..Sn the data section holds the definitions
\* msg0..msgn with the contents of S0..Sn in that order, each followed by
\* its own len{i}, and the text section holds one write block per statement,
\* in the same order, block i naming msg{i} and len{i}; the lines of a block
\* are adjacent, so that no two blocks interleave.
C6_StatementOrder ==
    Emitted =>
        LET L == Lines(outfile.bytes)
            n == program.count
            text == CHOOSE t \in Where(L, SectionText) : TRUE
            msgs == Ascending(WherePrefix(L, S_msg))
            refs == Ascending(WherePrefix(L, S_rsi))
        IN  /\ Cardinality(Where(L, SectionText)) = 1
            /\ Len(msgs) = n /\ Cardinality(WherePrefix(L, S_len)) = n
            /\ Len(refs) = n /\ Cardinality(WherePrefix(L, S_rdx)) = n
            /\ \A j \in 0..(n - 1) :
                  /\ msgs[j + 1] < text
                  /\ L[msgs[j + 1]] = MsgDef(j, program.statements[j].value)
                  /\ L[msgs[j + 1] + 1] = LenDef(j)
                  /\ refs[j + 1] > text
                  /\ L[refs[j + 1] - 2] = Chomp(S_rax1)
                  /\ L[refs[j + 1] - 1] = Chomp(S_rdi1)
                  /\ L[refs[j + 1]] = RsiRef(j)
                  /\ L[refs[j + 1] + 1] = RdxRef(j)
                  /\ L[refs[j + 1] + 2] = Chomp(S_syscall)
C6_Witness ==
    /\ Emitted
    /\ program.count = 2
    /\ program.statements[0].value # program.statements[1].value
    /\ 34 \in Range(program.statements[1].value)

\* C8: for every Program, the empty one included, the data section comes
\* wholly before the text section, the label _start comes after the text
\* section header and before every write block, and the exit block (syscall
\* 60, status 0) is emitted exactly once, after every write block, as the
\* last instructions of the output.
C8_SectionLayout ==
    Emitted =>
        LET L == Lines(outfile.bytes)
            n == program.count
            text == CHOOSE t \in Where(L, SectionText) : TRUE
            start == CHOOSE t \in Where(L, Chomp(S_start)) : TRUE
            defs == WherePrefix(L, S_msg) \cup WherePrefix(L, S_len)
            instrs == WherePrefix(L, Indent)
        IN  /\ outfile.bytes[Len(outfile.bytes)] = NL
            /\ Where(L, SectionData) = {1}
            /\ Cardinality(Where(L, SectionText)) = 1
            /\ Cardinality(defs) = 2 * n
            /\ \A d \in defs : 1 < d /\ d < text
            /\ Cardinality(Where(L, Chomp(S_start))) = 1
            /\ text < start
            /\ \A k \in instrs : start < k
            /\ Cardinality(Where(L, Chomp(S_rax1))) = n
            /\ Where(L, Chomp(S_rax60)) = {Len(L) - 2}
            /\ L[Len(L) - 1] = Chomp(S_xor)
            /\ L[Len(L)] = Chomp(S_syscall)
            /\ Cardinality(instrs) = 5 * n + 3
C8_Witness ==
    /\ Emitted
    /\ program.count = 0
    /\ Len(Lines(outfile.bytes)) = 8

====
